---- MODULE Spec2Model ----
(***************************************************************************)
(* A model of unix_manual_server.py: one get_command_documentation request *)
(* as a state machine whose steps are the external process invocations of  *)
(* the request (the lookup shell, the help probes, man and col).  Text is  *)
(* modelled as sequences: the command as a sequence of characters, process *)
(* output as a sequence of words.                                          *)
(***************************************************************************)
EXTENDS Integers, Sequences, FiniteSets, TLC

VARIABLES
    command,          \* argument: the raw input string, a sequence of characters
    prefer_economic,  \* argument: BOOLEAN
    man_section,      \* argument: <<>> for None, <<n>> for the integer n
    pc,               \* position in get_command_documentation
    caller,           \* call site of search_help_documentation: "none", "economic" (155), "fallback" (208)
    main_command,     \* local: parts[0], <<>> before it is assigned
    command_path,     \* local: value of get_command_path, <<>> for None
    help_result,      \* local: value of the last safe_execute call (help_result of lines
                      \* 80-108, help_cmd of line 163)
    man_result,       \* local: CompletedProcess of man, NoResult before and when it raised
    col_input,        \* the stdin handed to col, as <<text>>; <<>> before
    col_result,       \* local: CompletedProcess of col, NoResult before and when it raised
    last_exc,         \* exception caught (and logged) by the last invocation, "" if none
    failed,           \* strategies whose failure was logged: "help" (line 118), "man" (201, 203)
    calls,            \* every process invocation of the request, in order
    outcome,          \* "running", "returned", "raised" or "hung"
    result,           \* the returned string (a sequence of pieces), or the exception raised
    system,           \* the external system: when its domain is empty every invocation is
                      \* answered freely, otherwise system[k] is the answer to invocation k
    previous,         \* the ends of the requests made before this one, in order
    tool,             \* the function that was called
    lookup,           \* local of get_command_path: result, the CompletedProcess of the shell
    self,             \* the request that is running, 1 or 2
    parked            \* <<>>, or <<c>> with c the variables of the request that is not running

vars == <<command, prefer_economic, man_section, pc, caller, main_command,
          command_path, help_result, man_result, col_input, col_result, last_exc,
          failed,
          calls, outcome, result, system, previous, tool, lookup, self, parked>>

---------------------------------------------------------------------------
(* Bounds of the model *)

\* longest input string, in characters
MaxCmdLen == 3
\* most lines the lookup shell prints
MaxLines == 2

SeqsUpTo(S, n) == UNION {[1..k -> S] : k \in 0..n}

\* characters an input is drawn from: a letter, the dash, a shell metacharacter, the blank
Chars == {"a", "-", ";", " "}
Commands == SeqsUpTo(Chars, MaxCmdLen)
PreferEconomic == BOOLEAN
\* no section, a section in the accepted range 1..9, one outside it
ManSections == {<<>>, <<1>>, <<10>>}

\* what a probe prints, as a sequence of words (blank, a help keyword, a version
\* number, other text): nothing, blanks only, help text bare and with blanks around
\* it, a version number, the word Version, other text bare and after a blank, other
\* text before a help keyword in mixed case
Stdouts == {<<>>, <<" ">>, <<"Usage">>, <<" ", "Usage", " ">>, <<"1.2.3">>, <<"Version">>,
            <<"x">>, <<" ", "x">>, <<"x", " ", "hELP">>}
ReturnCodes == {0, 1, 2, -9}

\* lines the lookup shell prints: an absolute path, the same with a trailing blank,
\* an alias body, an indented path, an empty line
ShellLines == {<<"/", "b">>, <<"/", "b", " ">>, <<"a", "=", "/", "b">>, <<" ", "/", "b">>, <<>>}
ShellStdouts == SeqsUpTo(ShellLines, MaxLines)

---------------------------------------------------------------------------
(* Python's str and re operations, on sequences *)

Whitespace == {" "}

RECURSIVE lstrip(_)
lstrip(s) == IF s # <<>> /\ Head(s) \in Whitespace THEN lstrip(Tail(s)) ELSE s

RECURSIVE rstrip(_)
rstrip(s) ==
    IF s # <<>> /\ s[Len(s)] \in Whitespace THEN rstrip(SubSeq(s, 1, Len(s) - 1)) ELSE s

\* str.strip()
strip(s) == rstrip(lstrip(s))

\* the first token of s and the rest of s behind it (s does not start with whitespace)
RECURSIVE TokenEnd(_, _)
TokenEnd(s, i) == IF i <= Len(s) /\ s[i] \notin Whitespace THEN TokenEnd(s, i + 1) ELSE i

\* str.split() with no separator: the maximal runs of non-whitespace
RECURSIVE split(_)
split(s) ==
    LET t == lstrip(s)
    IN  IF t = <<>> THEN <<>>
        ELSE LET e == TokenEnd(t, 1)
             IN  <<SubSeq(t, 1, e - 1)>> \o split(SubSeq(t, e, Len(t)))

\* the character class [a-zA-Z0-9_\.-], over the characters of the model
NameClass == {"a", "-", "_", "."}

\* re.match(r'^[a-zA-Z0-9_\.-]+$', name): name holds no newline, so $ is the end
ValidNameUnanchored(name) == \E i \in 1..Len(name) : name[i] \in NameClass
ValidNameFirstOnly(name) == name # <<>> /\ name[1] \in NameClass
ValidName(name) == name # <<>> /\ \A i \in 1..Len(name) : name[i] \in NameClass

---------------------------------------------------------------------------
(* Process results and the events of the environment *)

\* None, as safe_execute returns it
NoResult == [kind |-> "None"]
\* subprocess.CompletedProcess
CompletedProcess(rc, out) == [kind |-> "CompletedProcess", returncode |-> rc, stdout |-> out]

\* what running one probe can do: exit with a code and a stdout, time out, fail to spawn
ExecEvents ==
    [kind : {"completed"}, returncode : ReturnCodes, stdout : Stdouts]
        \cup {[kind |-> "TimeoutExpired"], [kind |-> "OSError"]}

\* what man and col print: nothing, a page, a page with an overstrike sequence
ManTexts == {<<>>, <<"LS(1)">>, <<"LS(1)", "_^HL">>}
ManEvents ==
    [kind : {"completed"}, returncode : {0, 1, 16}, stdout : ManTexts]
        \cup {[kind |-> "TimeoutExpired"], [kind |-> "OSError"]}
\* col runs without a timeout: it exits, fails to spawn, or never exits
ColEvents ==
    [kind : {"completed"}, returncode : {0, 1}, stdout : ManTexts]
        \cup {[kind |-> "OSError"], [kind |-> "hang"]}
\* the lookup shell runs without a timeout
ShellEvents ==
    [kind : {"completed"}, returncode : {0, 1}, stdout : ShellStdouts]
        \cup {[kind |-> "SubprocessError"], [kind |-> "OSError"], [kind |-> "hang"]}

\* safe_execute: the CompletedProcess, or None on a timeout or a spawn error
safe_execute(ev) ==
    IF ev.kind = "completed" THEN CompletedProcess(ev.returncode, ev.stdout) ELSE NoResult

\* the exception safe_execute caught and logged
caught(ev) == IF ev.kind = "completed" THEN "" ELSE ev.kind

\* one entry of calls: the argument list and the timeout (<<>> for none)
Call(argv, timeout) == [argv |-> argv, timeout |-> timeout]

HelpTimeout == 5
ManTimeout == 10

ProbeCallWithSecondToken(path, flag) ==
    LET parts == split(strip(command))
    IN  Call(IF Len(parts) >= 2 THEN <<path, parts[2], flag>> ELSE <<path, flag>>,
             <<HelpTimeout>>)
\* [command_path, flag] through safe_execute(timeout=5)
ProbeCall(path, flag) == Call(<<path, flag>>, <<HelpTimeout>>)

ShellCallWholeInput(name) ==
    Call(<<<<"$SHELL">>, <<"-l">>, <<"-c">>,
           <<"command -v ">> \o strip(command) \o <<" 2>/dev/null">>>>, <<>>)
\* [user_shell, "-l", "-c", f"command -v {command} 2>/dev/null"], no timeout
ShellCall(name) ==
    Call(<<<<"$SHELL">>, <<"-l">>, <<"-c">>,
           <<"command -v ">> \o name \o <<" 2>/dev/null">>>>, <<>>)

\* str(man_section) for 1..9
DecimalDigit == [n \in 1..9 |->
    CASE n = 1 -> "1" [] n = 2 -> "2" [] n = 3 -> "3" [] n = 4 -> "4" [] n = 5 -> "5"
      [] n = 6 -> "6" [] n = 7 -> "7" [] n = 8 -> "8" [] n = 9 -> "9"]

man_args_no_upper_bound(section, name) ==
    <<<<"man">>>>
        \o (IF section # <<>> /\ 1 <= section[1]
            THEN <<<<IF section[1] <= 9 THEN DecimalDigit[section[1]] ELSE "10">>>>
            ELSE <<>>)
        \o <<name>>
\* man_args: ["man"], the section when it is given and in 1..9, then main_command
man_args(section, name) ==
    <<<<"man">>>>
        \o (IF section # <<>> /\ 1 <= section[1] /\ section[1] <= 9
            THEN <<<<DecimalDigit[section[1]]>>>> ELSE <<>>)
        \o <<name>>

ManCall(section, name) == Call(man_args(section, name), <<ManTimeout>>)
\* ["col", "-b"], no timeout
ColCall == Call(<<<<"col">>, <<"-b">>>>, <<>>)

---------------------------------------------------------------------------
(* get_command_path *)

\* the first line that begins with "/", stripped; <<>> (None) when there is none
RECURSIVE first_path(_)
first_path(lines) ==
    IF lines = <<>> THEN <<>>
    ELSE IF Head(lines) # <<>> /\ Head(lines)[1] = "/" THEN strip(Head(lines))
    ELSE first_path(Tail(lines))

---------------------------------------------------------------------------
(* search_help_documentation: acceptance and classification of a probe *)

\* str.lower() on the words of the model and of the patterns
Lower(w) ==
    CASE w \in {"usage", "Usage", "USAGE"} -> "usage"
      [] w \in {"options", "Options", "OPTIONS"} -> "options"
      [] w \in {"help", "Help", "HELP", "hELP"} -> "help"
      [] w \in {"version", "Version", "VERSION"} -> "version"
      [] OTHER -> w

\* the alternatives of the pattern of lines 86 and 99 ("USAGE:" matches where "USAGE" does)
HelpPattern == {"usage", "options", "help", "Usage", "Options", "Help",
                "USAGE", "OPTIONS", "HELP", "VERSION", "Version"}
\* the alternatives of the pattern of line 111
HelpSubPattern == {"usage", "options", "help", "Usage", "Options", "Help",
                   "USAGE", "OPTIONS", "HELP"}

\* re.search(pattern, output, re.IGNORECASE)
re_search(pattern, output) ==
    \E i \in 1..Len(output) : \E alt \in pattern : Lower(output[i]) = Lower(alt)

\* re.search(r'\d+\.\d+\.\d+', output)
re_search_version(output) == \E i \in 1..Len(output) : output[i] \in {"1.2.3"}

\* help_result and help_result.returncode < 2 and help_result.stdout.strip()
Accepted(r) == r.kind = "CompletedProcess" /\ r.returncode < 2 /\ strip(r.stdout) # <<>>

\* the test of lines 86-87 and 99-100
GenuineHelp(output) == re_search(HelpPattern, output) \/ re_search_version(output)
GenuineHelpSubWide(output) == GenuineHelp(output)
\* the test of line 111
GenuineHelpSub(output) == re_search(HelpSubPattern, output)

---------------------------------------------------------------------------
(* The strings get_command_documentation returns *)

HelpOutputNoHeader(name, output) == <<"Help for '">> \o name \o <<"':\n\n">> \o output
HelpOutput(name, output) == <<"Help output for '">> \o name \o <<"':\n\n">> \o output
ManualPage(name, man_text) == <<"Manual page for '">> \o name \o <<"':\n\n">> \o man_text
InvalidCommandName(name) == <<"Invalid command name: '">> \o name \o <<"'">>
CommandNotFound(name) == <<"Command not found: '">> \o name \o <<"'">>
NoDocumentation(cmd) == <<"No documentation available for '">> \o cmd \o <<"'">>

---------------------------------------------------------------------------
(* get_command_documentation, one request.  Every step is one process      *)
(* invocation with the code around it.  A step clears the locals of earlier *)
(* invocations that the code never reads again.                            *)

args == <<command, prefer_economic, man_section>>

\* the locals and the record of a request that has not started
FreshLocals ==
    /\ caller = "none"
    /\ main_command = <<>>
    /\ command_path = <<>>
    /\ help_result = NoResult
    /\ man_result = NoResult
    /\ col_input = <<>>
    /\ col_result = NoResult
    /\ last_exc = ""
    /\ failed = {}
    /\ calls = <<>>
    /\ outcome = "running"
    /\ result = <<>>

\* a system that answers every invocation freely
AnySystem == <<>>
world == <<system, previous, tool, lookup, self, parked>>
\* a request that runs by itself
Alone == tool = "get_command_documentation" /\ lookup = NoResult /\ self = 1 /\ parked = <<>>

\* the answers the system offers to invocation k, among the answers S it can give
Offered(k, S) == IF DOMAIN system = {} THEN S ELSE {system[k]} \cap S

Init ==
    /\ command \in Commands
    /\ prefer_economic \in PreferEconomic
    /\ man_section \in ManSections
    /\ pc = "start"
    /\ FreshLocals
    /\ system = AnySystem
    /\ previous = <<>>
    /\ Alone

\* return value
Return(value) == pc' = "done" /\ outcome' = "returned" /\ result' = value
\* an exception leaves get_command_documentation
Raise(exc) == pc' = "done" /\ outcome' = "raised" /\ result' = <<exc>>
\* a subprocess.run without timeout never returns
Hang == pc' = "hung" /\ outcome' = "hung" /\ result' = result
Goto(label) == pc' = label /\ UNCHANGED <<outcome, result>>

\* lines 137-144: parts = command.strip().split(); main_command = parts[0]; the name check
ParseCommand ==
    /\ pc = "start"
    /\ LET parts == split(strip(command))
       IN  IF parts = <<>>
           THEN Raise("IndexError") /\ main_command' = main_command
           ELSE /\ main_command' = parts[1]
                /\ IF ~ValidName(parts[1])
                   THEN Return(InvalidCommandName(parts[1]))
                   ELSE Goto("resolve")
    /\ UNCHANGED <<args, world, caller, command_path, help_result, man_result, col_input,
                   col_result, last_exc, failed, calls>>

get_command_path_first_line(ev) ==
    IF ev.kind = "completed" /\ ev.stdout # <<>> THEN strip(ev.stdout[1]) ELSE <<>>
\* the value of get_command_path (lines 33-48) when the lookup shell does ev:
\* the first absolute line of its stdout, None when there is none or on SubprocessError
get_command_path(ev) == IF ev.kind = "completed" THEN first_path(ev.stdout) ELSE <<>>

FirstStrategyEconomic == Goto("help_long") /\ caller' = "economic"
\* lines 152-153 and 168: the first strategy
FirstStrategy ==
    IF prefer_economic
    THEN Goto("help_long") /\ caller' = "economic"
    ELSE Goto("man") /\ caller' = caller

AfterResolveNoCheck == FirstStrategy
\* lines 148-153: "Command not found" when get_command_path gave no path
AfterResolve ==
    IF command_path' = <<>>
    THEN Return(CommandNotFound(main_command)) /\ caller' = caller
    ELSE FirstStrategy

\* lines 147-153: get_command_path, "Command not found", the first strategy
ResolvePath ==
    /\ pc = "resolve"
    /\ calls' = Append(calls, ShellCall(main_command))
    /\ \E ev \in Offered("shell", ShellEvents) :
          CASE ev.kind = "OSError" ->
                 \* not a SubprocessError: line 46 does not catch it
                 /\ Raise("OSError")
                 /\ UNCHANGED <<command_path, caller, last_exc>>
            [] ev.kind = "hang" ->
                 /\ Hang
                 /\ UNCHANGED <<command_path, caller, last_exc>>
            [] OTHER ->
                 /\ command_path' = get_command_path(ev)
                 /\ last_exc' = caught(ev)
                 /\ AfterResolve
    /\ UNCHANGED <<args, world, main_command, help_result, man_result, col_input, col_result,
                   failed>>

AllFailedMainCommand == Return(NoDocumentation(main_command))
\* lines 212-214
AllFailed == Return(NoDocumentation(command))

\* lines 117-119, then the caller: line 156 falls to the direct check, line 209 to line 212
HelpNotFound ==
    /\ failed' = failed \cup {"help"}
    /\ IF caller = "economic" THEN Goto("direct") ELSE AllFailed

\* one probe of search_help_documentation: safe_execute([command_path, flag], timeout=5),
\* the acceptance test, the classification, and the return through the caller
\* (lines 156-157 and 209-210 return a non-empty help_result as it is); wide tells
\* the pattern of lines 86-87 and 99-100 from that of line 111
Probe(here, flag, wide, Otherwise) ==
    /\ pc = here
    /\ calls' = Append(calls, ProbeCall(command_path, flag))
    /\ \E ev \in Offered(flag[1], ExecEvents) :
          LET r == safe_execute(ev)
          IN  /\ help_result' = r
              /\ last_exc' = caught(ev)
              /\ IF /\ Accepted(r)
                    /\ IF wide THEN GenuineHelp(strip(r.stdout))
                               ELSE GenuineHelpSub(strip(r.stdout))
                 THEN Return(HelpOutput(main_command, strip(r.stdout))) /\ failed' = failed
                 ELSE Otherwise
    /\ man_result' = NoResult
    /\ col_input' = <<>>
    /\ UNCHANGED <<args, world, caller, main_command, command_path, col_result>>

SearchHelpLongShortFirst ==
    Probe("help_long", <<"-h">>, TRUE, Goto("help_short") /\ failed' = failed)
\* lines 78-92
SearchHelpLong ==
    Probe("help_long", <<"--help">>, TRUE, Goto("help_short") /\ failed' = failed)

SearchHelpShortLast == Probe("help_short", <<"-h">>, TRUE, HelpNotFound)
\* lines 94-104
SearchHelpShort ==
    Probe("help_short", <<"-h">>, TRUE, Goto("help_sub") /\ failed' = failed)

\* lines 106-119
SearchHelpSub ==
    Probe("help_sub", <<"help">>, FALSE, HelpNotFound)

DirectAcceptedIfGenuine(help_cmd) ==
    Accepted(help_cmd) /\ GenuineHelp(strip(help_cmd.stdout))
\* line 164: help_cmd and help_cmd.stdout and help_cmd.returncode < 2
DirectAccepted(help_cmd) ==
    /\ help_cmd.kind = "CompletedProcess"
    /\ help_cmd.stdout # <<>>
    /\ help_cmd.returncode < 2

\* lines 161-166: the direct --help check
DirectHelp ==
    /\ pc = "direct"
    /\ calls' = Append(calls, ProbeCall(command_path, <<"--help">>))
    /\ \E ev \in Offered("--help", ExecEvents) :
          LET help_cmd == safe_execute(ev)
          IN  /\ help_result' = help_cmd
              /\ last_exc' = caught(ev)
              /\ IF DirectAccepted(help_cmd)
                 THEN Return(HelpOutput(main_command, strip(help_cmd.stdout)))
                 ELSE Goto("man")
    /\ UNCHANGED <<args, world, caller, main_command, command_path, man_result, col_input,
                   col_result, failed>>

ManFailedAlwaysFallback ==
    /\ failed' = failed \cup {"man"}
    /\ Goto("help_long") /\ caller' = "fallback"
ManFailedGiveUp ==
    /\ failed' = failed \cup {"man"}
    /\ AllFailed /\ caller' = caller
\* lines 200-210: man failed; with prefer_economic false the help search is the fallback
ManFailed ==
    /\ failed' = failed \cup {"man"}
    /\ IF ~prefer_economic
       THEN Goto("help_long") /\ caller' = "fallback"
       ELSE AllFailed /\ caller' = caller

\* lines 169-189 and 200-203: man_args, subprocess.run(man_args, timeout=10)
ManLookup ==
    /\ pc = "man"
    /\ calls' = Append(calls, ManCall(man_section, main_command))
    /\ \E ev \in Offered("man", ManEvents) :
          /\ man_result' = IF ev.kind = "completed"
                            THEN CompletedProcess(ev.returncode, ev.stdout)
                            ELSE NoResult
          /\ last_exc' = caught(ev)
          /\ IF ev.kind = "completed" /\ ev.returncode = 0
             THEN Goto("col") /\ UNCHANGED <<caller, failed>>
             ELSE ManFailed
    /\ help_result' = NoResult
    /\ UNCHANGED <<args, world, main_command, command_path, col_input, col_result>>

man_text_unfiltered == man_result.stdout
\* line 197: man_text = col_result.stdout
man_text == col_result'.stdout

\* lines 190-199 and 202-203: subprocess.run(["col", "-b"], input=man_result.stdout)
ColFilter ==
    /\ pc = "col"
    /\ calls' = Append(calls, ColCall)
    /\ col_input' = <<man_result.stdout>>
    /\ \E ev \in Offered("col", ColEvents) :
          CASE ev.kind = "completed" ->
                 /\ col_result' = CompletedProcess(ev.returncode, ev.stdout)
                 /\ last_exc' = ""
                 /\ Return(ManualPage(main_command, man_text))
                 /\ UNCHANGED <<caller, failed>>
            [] ev.kind = "OSError" ->
                 \* except Exception of line 202
                 /\ col_result' = col_result
                 /\ last_exc' = "OSError"
                 /\ ManFailed
            [] OTHER ->
                 /\ Hang
                 /\ UNCHANGED <<col_result, last_exc, caller, failed>>
    /\ UNCHANGED <<args, world, main_command, command_path, help_result, man_result>>

Next ==
    \/ ParseCommand
    \/ ResolvePath
    \/ SearchHelpLong
    \/ SearchHelpShort
    \/ SearchHelpSub
    \/ DirectHelp
    \/ ManLookup
    \/ ColFilter

Spec == Init /\ [][Next]_vars

---------------------------------------------------------------------------
(* check_command_exists, one request.  command_name is held in main_command *)
(* and version_result in help_result; the other locals keep their initial   *)
(* values.                                                                  *)

\* the strings check_command_exists returns (lines 307, 323, 326)
VersionInformation(name, path, version) ==
    <<"Command '">> \o name \o <<"' exists at ">> \o path
        \o <<".\nVersion information: ">> \o version
ExistsAt(name, path) ==
    <<"Command '">> \o name \o <<"' exists on this system at ">> \o path \o <<".">>
DoesNotExist(name) ==
    <<"Command '">> \o name \o <<"' does not exist or is not in the PATH.">>

\* check_command_exists has the one argument; the other two stay at the defaults
CheckInit ==
    /\ command \in Commands
    /\ prefer_economic = TRUE
    /\ man_section = <<>>
    /\ pc = "check"
    /\ FreshLocals
    /\ system = AnySystem
    /\ previous = <<>>
    /\ tool = "check_command_exists" /\ lookup = NoResult /\ self = 1 /\ parked = <<>>

\* lines 291-296: command_name = command.strip().split()[0]; the name check
CheckParse ==
    /\ pc = "check"
    /\ LET parts == split(strip(command))
       IN  IF parts = <<>>
           THEN Raise("IndexError") /\ main_command' = main_command
           ELSE /\ main_command' = parts[1]
                /\ IF ~ValidName(parts[1])
                   THEN Return(InvalidCommandName(parts[1]))
                   ELSE Goto("check_resolve")
    /\ UNCHANGED <<args, world, caller, command_path, help_result, man_result, col_input,
                   col_result, last_exc, failed, calls>>

\* lines 299 and 324-326: the branch on command_path
CheckAfterResolve ==
    IF command_path' # <<>>
    THEN Goto("version_long")
    ELSE Return(DoesNotExist(main_command))

\* lines 298-299 and 324-326: get_command_path and the branch on its value
CheckResolve ==
    /\ pc = "check_resolve"
    /\ calls' = Append(calls, ShellCall(main_command))
    /\ \E ev \in Offered("shell", ShellEvents) :
          CASE ev.kind = "OSError" ->
                 \* not a SubprocessError: line 46 does not catch it
                 /\ Raise("OSError")
                 /\ UNCHANGED <<command_path, last_exc>>
            [] ev.kind = "hang" ->
                 /\ Hang
                 /\ UNCHANGED <<command_path, last_exc>>
            [] OTHER ->
                 /\ command_path' = get_command_path(ev)
                 /\ last_exc' = caught(ev)
                 /\ CheckAfterResolve
    /\ UNCHANGED <<args, world, caller, main_command, help_result, man_result, col_input,
                   col_result, failed>>

NoVersionDoesNotExist == Return(DoesNotExist(main_command))
\* line 323: no probe gave version information
NoVersion == Return(ExistsAt(main_command, command_path))

\* one version probe: safe_execute([command_path, flag], timeout=5) and its test
VersionProbe(here, flag, Otherwise) ==
    /\ pc = here
    /\ calls' = Append(calls, ProbeCall(command_path, flag))
    /\ \E ev \in Offered(flag[1], ExecEvents) :
          LET version_result == safe_execute(ev)
          IN  /\ help_result' = version_result
              /\ last_exc' = caught(ev)
              /\ IF Accepted(version_result)
                 THEN Return(VersionInformation(main_command, command_path,
                                                strip(version_result.stdout)))
                 ELSE Otherwise
    /\ UNCHANGED <<args, world, caller, main_command, command_path, man_result, col_input,
                   col_result, failed>>

\* lines 302-307
VersionLong == VersionProbe("version_long", <<"--version">>, Goto("version_short"))
\* lines 309-314
VersionShort == VersionProbe("version_short", <<"-V">>, Goto("version_sub"))
\* lines 316-323
VersionSub == VersionProbe("version_sub", <<"version">>, NoVersion)

CheckNext ==
    \/ CheckParse
    \/ CheckResolve
    \/ VersionLong
    \/ VersionShort
    \/ VersionSub

CheckSpec == CheckInit /\ [][CheckNext]_vars

---------------------------------------------------------------------------
(* Two get_command_documentation requests with the same arguments, one      *)
(* after the other, on a system that answers an invocation the same way     *)
(* every time it is made.                                                   *)

\* the answers of the systems of this specification, per invocation
SystemAnswers ==
    [shell |-> {[kind |-> "completed", returncode |-> 0, stdout |-> <<<<"/", "b">>>>],
                [kind |-> "completed", returncode |-> 1, stdout |-> <<>>]},
     help_long |-> {[kind |-> "completed", returncode |-> 0, stdout |-> <<"Usage">>],
                    [kind |-> "completed", returncode |-> 0, stdout |-> <<"x">>],
                    [kind |-> "TimeoutExpired"]},
     help_short |-> {[kind |-> "completed", returncode |-> 1, stdout |-> <<" ", "Usage", " ">>],
                     [kind |-> "OSError"]},
     help_sub |-> {[kind |-> "completed", returncode |-> 0, stdout |-> <<"Usage">>],
                   [kind |-> "completed", returncode |-> 2, stdout |-> <<"Usage">>]},
     man |-> {[kind |-> "completed", returncode |-> 0, stdout |-> <<"LS(1)", "_^HL">>],
              [kind |-> "completed", returncode |-> 16, stdout |-> <<>>]},
     col |-> {[kind |-> "completed", returncode |-> 0, stdout |-> <<"LS(1)">>],
              [kind |-> "OSError"]}]

Systems ==
    {[k \in {"shell", "--help", "-h", "help", "man", "col"} |->
         CASE k = "shell" -> a
           [] k = "--help" -> b
           [] k = "-h" -> c
           [] k = "help" -> d
           [] k = "man" -> e
           [] k = "col" -> f] :
       a \in SystemAnswers.shell, b \in SystemAnswers.help_long,
       c \in SystemAnswers.help_short, d \in SystemAnswers.help_sub,
       e \in SystemAnswers.man, f \in SystemAnswers.col}

TwiceInit ==
    /\ command \in Commands
    /\ prefer_economic \in PreferEconomic
    /\ man_section \in ManSections
    /\ pc = "start"
    /\ FreshLocals
    /\ system \in Systems
    /\ previous = <<>>
    /\ Alone

\* how a request ended
Ending == [outcome |-> outcome, result |-> result, calls |-> calls]

NextRequestKeepingCalls ==
    /\ pc = "done"
    /\ previous = <<>>
    /\ previous' = <<Ending>>
    /\ pc' = "start"
    /\ caller' = "none" /\ main_command' = <<>> /\ command_path' = <<>>
    /\ help_result' = NoResult /\ man_result' = NoResult /\ col_input' = <<>>
    /\ col_result' = NoResult /\ last_exc' = "" /\ failed' = {}
    /\ outcome' = "running" /\ result' = <<>>
    /\ UNCHANGED <<args, system, tool, lookup, self, parked, calls>>

\* lines 122-134: the same call is made again; nothing of the first is left but its
\* ending, which is kept aside for comparison
NextRequest ==
    /\ pc = "done"
    /\ previous = <<>>
    /\ previous' = <<Ending>>
    /\ pc' = "start"
    /\ caller' = "none" /\ main_command' = <<>> /\ command_path' = <<>>
    /\ help_result' = NoResult /\ man_result' = NoResult /\ col_input' = <<>>
    /\ col_result' = NoResult /\ last_exc' = "" /\ failed' = {}
    /\ calls' = <<>> /\ outcome' = "running" /\ result' = <<>>
    /\ UNCHANGED <<args, system, tool, lookup, self, parked>>

TwiceNext ==
    \/ ParseCommand
    \/ ResolvePath
    \/ SearchHelpLong
    \/ SearchHelpShort
    \/ SearchHelpSub
    \/ DirectHelp
    \/ ManLookup
    \/ ColFilter
    \/ NextRequest

TwiceSpec == TwiceInit /\ [][TwiceNext]_vars

---------------------------------------------------------------------------
(* Requests of either tool *)

ToolsInit == Init \/ CheckInit

ToolsNext ==
    \/ ParseCommand
    \/ ResolvePath
    \/ SearchHelpLong
    \/ SearchHelpShort
    \/ SearchHelpSub
    \/ DirectHelp
    \/ ManLookup
    \/ ColFilter
    \/ CheckParse
    \/ CheckResolve
    \/ VersionLong
    \/ VersionShort
    \/ VersionSub

ToolsSpec == ToolsInit /\ [][ToolsNext]_vars

---------------------------------------------------------------------------
(* get_command_documentation with prefer_economic false, over more sections *)

\* no section, and sections below, at and above both ends of the range 1..9
WideManSections == {<<>>, <<-1>>, <<0>>, <<1>>, <<9>>, <<10>>}

SectionInit ==
    /\ command \in Commands
    /\ prefer_economic = FALSE
    /\ man_section \in WideManSections
    /\ pc = "start"
    /\ FreshLocals
    /\ system = AnySystem
    /\ previous = <<>>
    /\ Alone

SectionNext ==
    \/ ParseCommand
    \/ ResolvePath
    \/ ManLookup
    \/ ColFilter
    \/ SearchHelpLong
    \/ SearchHelpShort
    \/ SearchHelpSub

SectionSpec == SectionInit /\ [][SectionNext]_vars

---------------------------------------------------------------------------
(* get_command_path by itself: its argument is command, its value result *)

PathInit ==
    /\ command \in {c \in Commands : ValidName(c)}
    /\ prefer_economic = TRUE
    /\ man_section = <<>>
    /\ pc = "get_command_path"
    /\ FreshLocals
    /\ system = AnySystem
    /\ previous = <<>>
    /\ tool = "get_command_path" /\ lookup = NoResult /\ self = 1 /\ parked = <<>>

\* lines 29-48
GetCommandPath ==
    /\ pc = "get_command_path"
    /\ calls' = Append(calls, ShellCall(command))
    /\ \E ev \in Offered("shell", ShellEvents) :
          CASE ev.kind = "OSError" ->
                 /\ Raise("OSError")
                 /\ UNCHANGED <<lookup, last_exc>>
            [] ev.kind = "hang" ->
                 /\ Hang
                 /\ UNCHANGED <<lookup, last_exc>>
            [] OTHER ->
                 /\ lookup' = IF ev.kind = "completed"
                              THEN CompletedProcess(ev.returncode, ev.stdout)
                              ELSE NoResult
                 /\ last_exc' = caught(ev)
                 /\ Return(get_command_path(ev))
    /\ UNCHANGED <<args, caller, main_command, command_path, help_result, man_result,
                   col_input, col_result, failed, system, previous, tool, self, parked>>

PathNext == GetCommandPath

PathSpec == PathInit /\ [][PathNext]_vars

---------------------------------------------------------------------------
(* Two get_command_documentation requests at once.  Each request has its     *)
(* own arguments and locals; the request that is not running keeps them in   *)
(* parked.  Each request is first made alone, then both are made together,   *)
(* the processor passing from one to the other between any two steps.        *)

\* the inputs of the requests made together: two valid names and an invalid one
ConcurrentCommands == {<<"a">>, <<"-">>, <<";">>}

\* the arguments and locals of the running request
Context ==
    [command |-> command,
     prefer_economic |-> prefer_economic,
     man_section |-> man_section,
     pc |-> pc,
     caller |-> caller,
     main_command |-> main_command,
     command_path |-> command_path,
     help_result |-> help_result,
     man_result |-> man_result,
     col_input |-> col_input,
     col_result |-> col_result,
     last_exc |-> last_exc,
     failed |-> failed,
     calls |-> calls,
     outcome |-> outcome,
     result |-> result]

\* those of a request that has not started
FreshContext(c, e, m) ==
    [command |-> c, prefer_economic |-> e, man_section |-> m, pc |-> "start",
     caller |-> "none", main_command |-> <<>>, command_path |-> <<>>,
     help_result |-> NoResult, man_result |-> NoResult, col_input |-> <<>>,
     col_result |-> NoResult, last_exc |-> "", failed |-> {}, calls |-> <<>>,
     outcome |-> "running", result |-> <<>>]

\* the request with context c becomes the running one
Load(c) ==
    /\ command' = c.command
    /\ prefer_economic' = c.prefer_economic
    /\ man_section' = c.man_section
    /\ pc' = c.pc
    /\ caller' = c.caller
    /\ main_command' = c.main_command
    /\ command_path' = c.command_path
    /\ help_result' = c.help_result
    /\ man_result' = c.man_result
    /\ col_input' = c.col_input
    /\ col_result' = c.col_result
    /\ last_exc' = c.last_exc
    /\ failed' = c.failed
    /\ calls' = c.calls
    /\ outcome' = c.outcome
    /\ result' = c.result

ConcurrentInit ==
    /\ command \in ConcurrentCommands
    /\ prefer_economic \in PreferEconomic
    /\ man_section = <<>>
    /\ pc = "start"
    /\ FreshLocals
    /\ system \in Systems
    /\ previous = <<>>
    /\ tool = "get_command_documentation"
    /\ lookup = NoResult
    /\ self = 1
    /\ parked \in {<<FreshContext(c, e, <<>>)>> : c \in ConcurrentCommands, e \in PreferEconomic}

\* a request made alone has ended: its ending is kept, and the other request is
\* made alone; after both, the two are made together
StartOther ==
    /\ pc = "done"
    /\ Len(previous) < 2
    /\ previous' = Append(previous, Ending)
    /\ Load(parked[1])
    /\ parked' = <<FreshContext(command, prefer_economic, man_section)>>
    /\ self' = 3 - self
    /\ UNCHANGED <<system, tool, lookup>>

SwitchSharingMainCommand ==
    /\ Len(previous) = 2
    /\ parked[1].pc # "done"
    /\ command' = parked[1].command
    /\ prefer_economic' = parked[1].prefer_economic
    /\ man_section' = parked[1].man_section
    /\ pc' = parked[1].pc
    /\ caller' = parked[1].caller
    /\ command_path' = parked[1].command_path
    /\ help_result' = parked[1].help_result
    /\ man_result' = parked[1].man_result
    /\ col_input' = parked[1].col_input
    /\ col_result' = parked[1].col_result
    /\ last_exc' = parked[1].last_exc
    /\ failed' = parked[1].failed
    /\ calls' = parked[1].calls
    /\ outcome' = parked[1].outcome
    /\ result' = parked[1].result
    /\ main_command' = main_command
    /\ parked' = <<Context>>
    /\ self' = 3 - self
    /\ UNCHANGED <<system, previous, tool, lookup>>

\* the processor passes to the other request, which goes on with its own locals
Switch ==
    /\ Len(previous) = 2
    /\ parked[1].pc # "done"
    /\ Load(parked[1])
    /\ parked' = <<Context>>
    /\ self' = 3 - self
    /\ UNCHANGED <<system, previous, tool, lookup>>

ConcurrentNext ==
    \/ ParseCommand
    \/ ResolvePath
    \/ SearchHelpLong
    \/ SearchHelpShort
    \/ SearchHelpSub
    \/ DirectHelp
    \/ ManLookup
    \/ ColFilter
    \/ StartOther
    \/ Switch

ConcurrentSpec == ConcurrentInit /\ [][ConcurrentNext]_vars

---------------------------------------------------------------------------
(* The properties of a request *)

\* the whitespace-separated tokens of the input
tokens == split(strip(command))

IsPrefix(s, t) == Len(s) <= Len(t) /\ SubSeq(t, 1, Len(s)) = s

\* s without its leading and trailing blanks, stated without recursion
Trimmed(s) ==
    LET solid == {i \in 1..Len(s) : s[i] # " "}
    IN  IF solid = {} THEN <<>>
        ELSE SubSeq(s, CHOOSE i \in solid : \A j \in solid : i <= j,
                       CHOOSE i \in solid : \A j \in solid : j <= i)

LongHelp == ProbeCall(command_path, <<"--help">>)
ShortHelp == ProbeCall(command_path, <<"-h">>)
SubHelp == ProbeCall(command_path, <<"help">>)
TheManCall == ManCall(man_section, main_command)
HelpProbes == {LongHelp, ShortHelp, SubHelp}

Occurrences(c) == Cardinality({i \in 1..Len(calls) : calls[i] = c})
Called(c) == \E i \in 1..Len(calls) : calls[i] = c
LastCall == calls[Len(calls)]

\* C1: an input whose first token does not match ^[A-Za-z0-9_.-]+$ spawns no process
\* at any point of the request, and the request ends by returning
\* "Invalid command name: '<first token>'".
C1_InvalidNameNoProcess ==
    (tokens # <<>> /\ \E i \in 1..Len(tokens[1]) : tokens[1][i] \notin NameClass)
        => /\ calls = <<>>
           /\ pc \in {"start", "done"}
           /\ pc = "done" =>
                 /\ outcome = "returned"
                 /\ result = <<"Invalid command name: '">> \o tokens[1] \o <<"'">>

\* a finished request whose first token starts with a valid character and holds an invalid one
C1_Witness ==
    /\ pc = "done"
    /\ tokens # <<>>
    /\ Len(tokens[1]) = 2
    /\ tokens[1][1] \in NameClass
    /\ tokens[1][2] \notin NameClass
    /\ result = InvalidCommandName(tokens[1])

\* the second token is a subcommand candidate: neither a flag nor shaped like a file name
HasSubcommand ==
    /\ Len(tokens) >= 2
    /\ tokens[2][1] # "-"
    /\ \A i \in 1..Len(tokens[2]) : tokens[2][i] # "."

\* C2: with a subcommand candidate as second token, the first invocation after the
\* resolver is the combined probe <mainCommand> <subcommand> --help.
C2_SubcommandHelpFirst ==
    (prefer_economic /\ HasSubcommand /\ Len(calls) >= 2)
        => calls[2].argv = <<command_path, tokens[2], <<"--help">>>>

\* C3: with preferEconomic true, a --help probe that completes with exit code 0 and
\* stdout classified as genuine help ends the request with exactly
\* "Help output for '<mainCommand>':\n\n" followed by the trimmed stdout.
C3_HelpOutputExact ==
    (/\ prefer_economic
     /\ calls # <<>>
     /\ LastCall = LongHelp
     /\ help_result.kind = "CompletedProcess"
     /\ help_result.returncode = 0
     /\ GenuineHelp(Trimmed(help_result.stdout)))
        => /\ pc = "done"
           /\ outcome = "returned"
           /\ result = <<"Help output for '">> \o main_command \o <<"':\n\n">>
                           \o Trimmed(help_result.stdout)

\* the first probe printed help text with blanks around it, and it was returned trimmed
C3_Witness ==
    /\ prefer_economic
    /\ Len(calls) = 2
    /\ pc = "done"
    /\ help_result.kind = "CompletedProcess"
    /\ help_result.returncode = 0
    /\ help_result.stdout = <<" ", "Usage", " ">>
    /\ result = <<"Help output for '">> \o main_command \o <<"':\n\n", "Usage">>

\* C4 as stated: once the help probes have failed and man has exited 0 (col was
\* started), a finished request has returned the manual page.
C4_ManualPageWheneverManExitsZero ==
    (prefer_economic /\ pc = "done" /\ Called(ColCall))
        => \E t \in ManTexts : result = <<"Manual page for '">> \o main_command \o <<"':\n\n">> \o t

\* C4, amended: when man exited 0 and col ran to completion, the request has returned
\* exactly "Manual page for '<mainCommand>':\n\n" followed by col's stdout, col having
\* been fed man's stdout; with preferEconomic true this comes after the three probes
\* and the direct check.
C4_ManualPageExact ==
    (col_result.kind = "CompletedProcess")
        => /\ pc = "done"
           /\ outcome = "returned"
           /\ result = <<"Manual page for '">> \o main_command \o <<"':\n\n">>
                           \o col_result.stdout
           /\ man_result.kind = "CompletedProcess"
           /\ man_result.returncode = 0
           /\ col_input = <<man_result.stdout>>
           /\ prefer_economic =>
                 calls = <<ShellCall(main_command), LongHelp, ShortHelp, SubHelp, LongHelp,
                           TheManCall, ColCall>>

\* the manual page was returned after the probes failed, and col changed the text
C4_Witness ==
    /\ prefer_economic
    /\ pc = "done"
    /\ Len(calls) = 7
    /\ col_result.kind = "CompletedProcess"
    /\ col_result.stdout # man_result.stdout
    /\ result = ManualPage(main_command, col_result.stdout)

\* C5: when both the help search and the manual lookup have failed, the request
\* returns exactly "No documentation available for '<original input>'", with the full
\* input and not the main command; and that message is returned in no other case.
C5_NoDocumentationExact ==
    /\ ({"help", "man"} \subseteq failed /\ pc = "done")
          => /\ outcome = "returned"
             /\ result = <<"No documentation available for '">> \o command \o <<"'">>
    /\ (outcome = "returned" /\ result[1] = "No documentation available for '")
          => {"help", "man"} \subseteq failed

\* everything failed for an input that is more than its main command
C5_Witness ==
    /\ pc = "done"
    /\ failed = {"help", "man"}
    /\ Len(tokens) = 2
    /\ command # main_command
    /\ result = NoDocumentation(command)

\* the invocations of a request with preferEconomic true, in order
EconomicChain ==
    <<ShellCall(main_command), LongHelp, ShortHelp, SubHelp, LongHelp, TheManCall, ColCall>>

\* C6: with preferEconomic true the invocations are a prefix of: resolver, --help, -h,
\* help, the direct --help, man, col; and man is invoked only after the help search
\* has failed.
C6_EconomicOrder ==
    prefer_economic =>
        /\ IsPrefix(calls, EconomicChain)
        /\ Called(TheManCall) => "help" \in failed

\* man ran after the whole chain
C6_Witness ==
    /\ prefer_economic
    /\ Len(calls) >= 6
    /\ calls[6] = TheManCall
    /\ "help" \in failed

\* C7 as stated: no invocation is executed twice in one request.
C7_EachAtMostOnce ==
    \A i, j \in 1..Len(calls) : i # j => calls[i] # calls[j]

\* C7, amended: -h, help, man, col and the resolver are executed at most once; --help
\* at most once with preferEconomic false and at most twice with it true, the second
\* time as the direct check after the help search failed; and when everything failed,
\* each strategy was attempted.
C7_NoRetryButDirectCheck ==
    /\ Occurrences(ShortHelp) <= 1
    /\ Occurrences(SubHelp) <= 1
    /\ Occurrences(TheManCall) <= 1
    /\ Occurrences(ColCall) <= 1
    /\ Occurrences(ShellCall(main_command)) <= 1
    /\ Occurrences(LongHelp) <= (IF prefer_economic THEN 2 ELSE 1)
    /\ Occurrences(LongHelp) = 2 => (calls[5] = LongHelp /\ "help" \in failed)
    /\ (pc = "done" /\ {"help", "man"} \subseteq failed)
          => /\ Occurrences(ShortHelp) = 1
             /\ Occurrences(SubHelp) = 1
             /\ Occurrences(TheManCall) = 1

\* everything failed with preferEconomic true: --help ran twice, the rest once
C7_Witness ==
    /\ prefer_economic
    /\ pc = "done"
    /\ failed = {"help", "man"}
    /\ Occurrences(LongHelp) = 2
    /\ Occurrences(TheManCall) = 1

\* C8: a request for an input with a first token ends by returning a string, never
\* by raising.
C8_NeverRaises ==
    (tokens # <<>> /\ pc = "done") => outcome = "returned"

\* C9: when the resolver gives no path for a valid main command, the request returns
\* exactly "Command not found: '<mainCommand>'" and the resolver's is its only
\* invocation.
C9_CommandNotFound ==
    /\ (calls # <<>> /\ command_path = <<>> /\ outcome \notin {"raised", "hung"})
          => /\ pc = "done"
             /\ outcome = "returned"
             /\ result = <<"Command not found: '">> \o main_command \o <<"'">>
             /\ calls = <<ShellCall(main_command)>>
    /\ (outcome = "returned" /\ result[1] = "Command not found: '")
          => command_path = <<>> /\ Len(calls) = 1

\* the resolver found nothing for a valid two-character name
C9_Witness ==
    /\ pc = "done"
    /\ Len(calls) = 1
    /\ command_path = <<>>
    /\ Len(main_command) = 2
    /\ result = CommandNotFound(main_command)

\* C10 as stated: with preferEconomic false, once man has exited 0 (col was started)
\* no help probe is executed.
C10_NoProbeAfterManExitsZero ==
    (~prefer_economic /\ Called(ColCall)) => \A p \in HelpProbes : ~Called(p)

\* the classification the probe of a call is held to
GenuineFor(c) == IF c = SubHelp THEN GenuineHelpSub(Trimmed(help_result.stdout))
                 ELSE GenuineHelp(Trimmed(help_result.stdout))

\* C10, amended: with preferEconomic false man is invoked first; when it exited 0 and
\* col ran to completion the manual page is returned and no probe was executed; the
\* probes run, in the order --help, -h, help, only after the manual lookup has failed
\* (man exited non-zero, timed out or crashed, or col raised); and a probe that is
\* accepted and genuine ends the request with "Help output for '<mainCommand>':\n\n<text>".
C10_ManualFirst ==
    ~prefer_economic =>
        /\ \/ IsPrefix(calls, <<ShellCall(main_command), TheManCall,
                                LongHelp, ShortHelp, SubHelp>>)
           \/ IsPrefix(calls, <<ShellCall(main_command), TheManCall, ColCall,
                                LongHelp, ShortHelp, SubHelp>>)
        /\ (\E p \in HelpProbes : Called(p)) => "man" \in failed
        /\ col_result.kind = "CompletedProcess" =>
              /\ calls = <<ShellCall(main_command), TheManCall, ColCall>>
              /\ pc = "done"
              /\ result = <<"Manual page for '">> \o main_command \o <<"':\n\n">>
                              \o col_result.stdout
        /\ (/\ calls # <<>>
            /\ LastCall \in HelpProbes
            /\ help_result.kind = "CompletedProcess"
            /\ help_result.returncode \in {0, 1}
            /\ Trimmed(help_result.stdout) # <<>>
            /\ GenuineFor(LastCall))
              => /\ pc = "done"
                 /\ outcome = "returned"
                 /\ result = <<"Help output for '">> \o main_command \o <<"':\n\n">>
                                 \o Trimmed(help_result.stdout)

\* man failed, and the -h probe of the fallback search gave the help text
C10_Witness ==
    /\ ~prefer_economic
    /\ pc = "done"
    /\ calls = <<ShellCall(main_command), TheManCall, LongHelp, ShortHelp>>
    /\ "man" \in failed
    /\ result = HelpOutput(main_command, <<"Usage">>)

---------------------------------------------------------------------------
(* The properties of a check_command_exists request (CheckSpec) *)

LongVersion == ProbeCall(command_path, <<"--version">>)
ShortVersion == ProbeCall(command_path, <<"-V">>)
SubVersion == ProbeCall(command_path, <<"version">>)
VersionProbes == {LongVersion, ShortVersion, SubVersion}

\* C11: once the resolver has given a path, whatever the version probes do, the
\* request never returns the "does not exist" message (and never raises); and when
\* the resolver gives no path, the request returns exactly
\* "Command '<name>' does not exist or is not in the PATH." with the resolver's as
\* its only invocation.
C11_ExistsOnceResolved ==
    /\ command_path # <<>> =>
          /\ outcome # "raised"
          /\ outcome = "returned" =>
                result[Len(result)] # "' does not exist or is not in the PATH."
    /\ (calls # <<>> /\ command_path = <<>> /\ outcome \notin {"raised", "hung"})
          => /\ pc = "done"
             /\ outcome = "returned"
             /\ result = <<"Command '">> \o main_command
                             \o <<"' does not exist or is not in the PATH.">>
             /\ calls = <<ShellCall(main_command)>>

\* a resolved command whose three version probes all gave nothing, the last by not
\* completing
C11_Witness ==
    /\ pc = "done"
    /\ command_path # <<>>
    /\ Len(calls) = 4
    /\ help_result = NoResult
    /\ result = ExistsAt(main_command, command_path)

\* C12: a version probe that is accepted has completed with exit code 0 or 1 and
\* non-empty trimmed stdout, so version information comes only from such a probe.
C12_VersionOnlyFromExitZeroOrOne ==
    (pc = "done" /\ outcome = "returned" /\ calls # <<>> /\ LastCall \in VersionProbes
        /\ \E i \in 1..Len(result) : result[i] = ".\nVersion information: ")
        => help_result.returncode \in {0, 1}

---------------------------------------------------------------------------
(* The properties of a repeated request (TwiceSpec) *)

---------------------------------------------------------------------------
(* Failures, acceptance and classification in a request (Spec) *)

\* C14: the resolver never lets an exception through to its caller: no request
\* that has invoked the lookup shell ends by raising.
C14_ResolverNeverPropagates ==
    calls # <<>> => outcome # "raised"

\* where a request goes after a help probe or man gave nothing usable
ContinuesAsUnusable ==
    CASE pc = "help_long" -> pc' = "help_short"
      [] pc = "help_short" -> pc' = "help_sub"
      [] pc = "help_sub" ->
           IF caller = "economic" THEN pc' = "direct"
           ELSE pc' = "done" /\ result' = <<"No documentation available for '">>
                                             \o command \o <<"'">>
      [] pc = "direct" -> pc' = "man"
      [] pc = "man" ->
           IF ~prefer_economic THEN pc' = "help_long"
           ELSE pc' = "done" /\ result' = <<"No documentation available for '">>
                                             \o command \o <<"'">>
      [] OTHER -> FALSE

\* C15: a help probe or man invocation that times out or cannot be spawned raises
\* nothing, leaves no result, is not accepted, and the request goes on exactly where
\* it goes after the same invocation completed without usable output.
C15_FailureIsNegativeResult ==
    [][(/\ pc \in {"help_long", "help_short", "help_sub", "direct", "man"}
        /\ calls' # calls
        /\ last_exc' \in {"TimeoutExpired", "OSError"})
          => /\ outcome' # "raised"
             /\ help_result' = NoResult
             /\ man_result' = NoResult
             /\ ContinuesAsUnusable]_vars

\* man timed out with preferEconomic false, and the help search is next
C15_Witness ==
    /\ ~prefer_economic
    /\ calls # <<>>
    /\ LastCall = TheManCall
    /\ last_exc = "TimeoutExpired"
    /\ man_result = NoResult
    /\ pc = "help_long"

\* C16: every invocation of a request carries a timeout, and no request is left
\* waiting for a process for ever.
C16_EveryInvocationBounded ==
    /\ outcome # "hung"
    /\ \A i \in 1..Len(calls) : calls[i].timeout # <<>>

\* the last invocation was made by search_help_documentation (not the direct check)
LastCallBySearch ==
    /\ calls # <<>>
    /\ LastCall \in HelpProbes
    /\ ~(prefer_economic /\ Len(calls) = 5)

ReturnedHelp == pc = "done" /\ outcome = "returned" /\ result[1] = "Help output for '"

\* C17: help text returned by search_help_documentation comes from a probe that
\* completed with exit code 0 or 1 and non-empty trimmed stdout.
C17_HelpOnlyFromExitZeroOrOne ==
    (LastCallBySearch /\ ReturnedHelp)
        => /\ help_result.kind = "CompletedProcess"
           /\ help_result.returncode \in {0, 1}
           /\ Trimmed(help_result.stdout) # <<>>

\* the words of the model without their case
CaseFolded(w) ==
    CASE w = "Usage" -> "usage"
      [] w = "hELP" -> "help"
      [] w = "Version" -> "version"
      [] OTHER -> w
Contains(output, token) == \E i \in 1..Len(output) : CaseFolded(output[i]) = token
HasVersionNumber(output) == \E i \in 1..Len(output) : output[i] = "1.2.3"

\* the classification as the claim words it
ClassifiedGenuine(c, output) ==
    IF c = SubHelp
    THEN \E token \in {"usage", "options", "help"} : Contains(output, token)
    ELSE \/ \E token \in {"usage", "options", "help", "version"} : Contains(output, token)
         \/ HasVersionNumber(output)

\* C18: a candidate of the --help or -h form is returned as help iff it contains,
\* whatever the case, usage, options, help or version, or a number of the form
\* d.d.d; a candidate of the help form iff it contains usage, options or help.
C18_Classification ==
    (/\ LastCallBySearch
     /\ help_result.kind = "CompletedProcess"
     /\ help_result.returncode \in {0, 1}
     /\ Trimmed(help_result.stdout) # <<>>)
        => (ReturnedHelp <=> ClassifiedGenuine(LastCall, Trimmed(help_result.stdout)))

\* the help form printed the word Version and was not taken for help, after the -h
\* form had been
C18_Witness ==
    /\ LastCallBySearch
    /\ LastCall = SubHelp
    /\ help_result.kind = "CompletedProcess"
    /\ help_result.returncode = 0
    /\ help_result.stdout = <<"Version">>
    /\ "help" \in failed

IsHelpProbe(c) == c \in HelpProbes

\* the invocations made by search_help_documentation so far
SearchCalls ==
    SelectSeq(IF prefer_economic /\ Len(calls) > 4 THEN SubSeq(calls, 1, 4) ELSE calls,
              IsHelpProbe)

\* C19: the forms are run in the order --help, -h, help, each at most once; a
\* candidate classified as genuine is returned at once, trimmed, and no later form
\* is run; the search comes back empty only after all three forms were run.
C19_ShortCircuit ==
    /\ IsPrefix(SearchCalls, <<LongHelp, ShortHelp, SubHelp>>)
    /\ "help" \in failed => SearchCalls = <<LongHelp, ShortHelp, SubHelp>>
    /\ (/\ LastCallBySearch
        /\ help_result.kind = "CompletedProcess"
        /\ help_result.returncode \in {0, 1}
        /\ Trimmed(help_result.stdout) # <<>>
        /\ ClassifiedGenuine(LastCall, Trimmed(help_result.stdout)))
          => /\ pc = "done"
             /\ result = <<"Help output for '">> \o main_command \o <<"':\n\n">>
                             \o Trimmed(help_result.stdout)
    /\ (LastCallBySearch /\ pc \notin {"done", "direct"})
          => pc = (CASE LastCall = LongHelp -> "help_short"
                     [] LastCall = ShortHelp -> "help_sub"
                     [] OTHER -> "none")

\* the -h form gave the help text after --help had not: the help form was never run
C19_Witness ==
    /\ prefer_economic
    /\ pc = "done"
    /\ calls = <<ShellCall(main_command), LongHelp, ShortHelp>>
    /\ result = HelpOutput(main_command, Trimmed(help_result.stdout))

\* C20: with preferEconomic true the fifth invocation, made once the search has come
\* back empty, is a direct --help; when it completes with exit code below 2 and
\* non-empty stdout the request returns "Help output for '<mainCommand>':\n\n" and
\* the trimmed stdout, unclassified, and man is not invoked; otherwise man is next.
\* With preferEconomic false --help is run only by the search after man failed.
C20_DirectCheck ==
    /\ prefer_economic =>
          /\ Len(calls) >= 5 => (calls[5] = LongHelp /\ "help" \in failed)
          /\ Called(TheManCall) => (Len(calls) >= 6 /\ calls[6] = TheManCall)
          /\ Len(calls) = 5 =>
                IF /\ help_result.kind = "CompletedProcess"
                   /\ help_result.returncode < 2
                   /\ help_result.stdout # <<>>
                THEN /\ pc = "done"
                     /\ outcome = "returned"
                     /\ result = <<"Help output for '">> \o main_command \o <<"':\n\n">>
                                     \o Trimmed(help_result.stdout)
                ELSE pc = "man"
    /\ ~prefer_economic =>
          /\ Occurrences(LongHelp) <= 1
          /\ Called(LongHelp) => "man" \in failed
          /\ pc # "direct"

\* the direct check returned output that the classification had refused
C20_Witness ==
    /\ prefer_economic
    /\ Len(calls) = 5
    /\ pc = "done"
    /\ help_result.stdout = <<" ", "x">>
    /\ ~GenuineHelp(<<"x">>)
    /\ result = HelpOutput(main_command, <<"x">>)

---------------------------------------------------------------------------
(* Arguments, names and results *)

\* str() of the sections of the model that are in range
SectionText == CASE man_section = <<1>> -> "1" [] man_section = <<9>> -> "9" [] OTHER -> "?"

ExpectedManArgv ==
    IF man_section # <<>> /\ man_section[1] >= 1 /\ man_section[1] <= 9
    THEN <<<<"man">>, <<SectionText>>, tokens[1]>>
    ELSE <<<<"man">>, tokens[1]>>

\* C21 (SectionSpec): man is invoked as [man, <section>, <mainCommand>] iff the
\* section is given and in 1..9, and as [man, <mainCommand>] otherwise; whatever the
\* section, a request whose command was resolved goes on to invoke man.
C21_ManArguments ==
    /\ \A i \in 1..Len(calls) : calls[i].argv[1] = <<"man">> => calls[i].argv = ExpectedManArgv
    /\ (command_path # <<>> /\ pc # "man")
          => (Len(calls) >= 2 /\ calls[2].argv = ExpectedManArgv /\ outcome # "raised")

\* section 10 was ignored and the manual page returned
C21_Witness ==
    /\ man_section = <<10>>
    /\ pc = "done"
    /\ Len(calls) = 3
    /\ calls[2].argv = <<<<"man">>, main_command>>
    /\ result[1] = "Manual page for '"

\* ^[a-zA-Z0-9_\.-]+$ on the characters of the model
MatchesNamePattern(name) ==
    name # <<>> /\ \A i \in 1..Len(name) : name[i] \in {"a", "-", "_", "."}

\* C22 (ToolsSpec): in both tools every invocation of the lookup shell is for a
\* first token that matches the name pattern, and an input whose first token does
\* not match ends with "Invalid command name: '<name>'" and no invocation at all.
C22_ResolverOnlyAfterNameCheck ==
    /\ \A i \in 1..Len(calls) :
          calls[i].argv[1] = <<"$SHELL">> =>
             /\ tokens # <<>>
             /\ MatchesNamePattern(tokens[1])
             /\ calls[i].argv[4] = <<"command -v ">> \o tokens[1] \o <<" 2>/dev/null">>
    /\ (tokens # <<>> /\ ~MatchesNamePattern(tokens[1]))
          => /\ calls = <<>>
             /\ pc \in {"start", "check", "done"}
             /\ pc = "done" =>
                   /\ outcome = "returned"
                   /\ result = <<"Invalid command name: '">> \o tokens[1] \o <<"'">>

\* check_command_exists refused a name that starts well
C22_Witness ==
    /\ tool = "check_command_exists"
    /\ pc = "done"
    /\ tokens # <<>>
    /\ tokens[1] = <<"a", ";">>
    /\ calls = <<>>
    /\ result = InvalidCommandName(tokens[1])

\* the five forms of a result
OneOfFiveForms(r) ==
    /\ r # <<>>
    /\ \/ r[1] = "Help output for '" /\ Len(r) > Len(main_command) + 2
       \/ r[1] = "Manual page for '"
       \/ r = <<"Invalid command name: '">> \o main_command \o <<"'">>
       \/ r = <<"Command not found: '">> \o main_command \o <<"'">>
       \/ r = <<"No documentation available for '">> \o command \o <<"'">>

\* C23: a request ends by returning a string of one of the five forms.
C23_OneOfFiveForms ==
    pc \in {"done", "hung"} => (outcome = "returned" /\ OneOfFiveForms(result))

C26_FlagIsNoSubcommand ==
    (Len(tokens) >= 2 /\ tokens[2][1] = "-")
        => /\ \A i \in 1..Len(calls) :
                 calls[i].argv[1] = command_path =>
                    \E flag \in {"--help", "-h", "help"} :
                       calls[i].argv = <<command_path, <<flag>>>>
           /\ (pc = "done" /\ outcome = "returned" /\ result[1] = "Help output for '")
                 => SubSeq(result, 1, Len(tokens[1]) + 2)
                       = <<"Help output for '">> \o tokens[1] \o <<"':\n\n">>

\* help was returned for an input whose second token is a flag
C26_Witness ==
    /\ command = <<"a", " ", "-">>
    /\ pc = "done"
    /\ Len(calls) = 2
    /\ result = <<"Help output for '", "a", "':\n\n", "Usage">>

\* C27: a result headed "Help output for" has text after the header.
C27_HelpTextNotEmpty ==
    (pc = "done" /\ outcome = "returned" /\ result[1] = "Help output for '")
        => Len(result) > Len(main_command) + 2

\* C28 (ToolsSpec): an input without tokens ends by returning a string, no process
\* having been spawned.
C28_EmptyInputReturns ==
    (tokens = <<>> /\ pc = "done") => (outcome = "returned" /\ calls = <<>>)

\* the argument lists that hold nothing of the input but its first token
AllowedArgvs ==
    {<<<<"$SHELL">>, <<"-l">>, <<"-c">>, <<"command -v ">> \o tokens[1] \o <<" 2>/dev/null">>>>,
     <<<<"man">>, tokens[1]>>, <<<<"man">>, <<"1">>, tokens[1]>>,
     <<<<"col">>, <<"-b">>>>}
        \cup {<<command_path, <<flag>>>> :
                 flag \in {"--help", "-h", "help", "--version", "-V", "version"}}

---------------------------------------------------------------------------
(* The properties of two requests at once (ConcurrentSpec) *)

\* C25: whatever the interleaving of the steps of two requests, for the same or for
\* different commands, each request ends as it ended when it was made alone: the
\* same outcome, the same text, after the same invocations.
C25_Independent ==
    Len(previous) = 2 =>
        /\ pc = "done" => Ending = previous[self]
        /\ parked[1].pc = "done" =>
              [outcome |-> parked[1].outcome, result |-> parked[1].result,
               calls |-> parked[1].calls] = previous[3 - self]

\* the second request has ended, having gone through the whole chain, while the
\* first, for another command, is between two probes
C25_Witness ==
    /\ Len(previous) = 2
    /\ self = 2
    /\ pc = "done"
    /\ Len(calls) = 7
    /\ parked[1].pc = "help_short"
    /\ parked[1].command # command

====
